---- MODULE Spec2Model ----
(***************************************************************************)
(* express-jobly: the dynamic query composition of the data-access layer.  *)
(*                                                                         *)
(*   helpers/sql.js   sqlForPartialUpdate                                  *)
(*   models/job.js    Job.create, Job.findAll, Job.get, Job.update,        *)
(*                    Job.remove                                           *)
(*   models/company.js Company.findAll, Company.update, Company.remove     *)
(*   models/user.js   User.register, User.get, User.applyForJob,           *)
(*                    User.update                                          *)
(*                                                                         *)
(* SQL text is a sequence of lexemes (strings); a JavaScript string value  *)
(* is a sequence of characters (one-character lexemes), so that a template *)
(* literal is the concatenation \o of its pieces.                          *)
(***************************************************************************)
EXTENDS Integers, Sequences, FiniteSets, TLC

VARIABLES op, args, ret, issued, jobs, companies, users,
          jobSeq, applications, calls

vars == <<op, args, ret, issued, jobs, companies, users,
          jobSeq, applications, calls>>

\* what the handlers of the query composition leave alone: the id sequence of
\* jobs, the applications and the applyForJob calls under way
rest == <<jobSeq, applications, calls>>

-----------------------------------------------------------------------------
(* Bounds of the model.                                                    *)

\* longest update record handed to sqlForPartialUpdate and the update facades
MaxFields == 2
\* longest raw text drawn for the minSalary filter value
MaxRawLen == 2
\* last value drawn from the id sequence of jobs: Job.create is called while
\* the sequence has not passed it
MaxJobId == 4

-----------------------------------------------------------------------------
(* JavaScript values.  A number is held in thousandths (Scale), so that    *)
(* 1 is n = 1000 and 0.001 is n = 1; NaN has its own tag.                  *)

Scale == 10 * 10 * 10

Undefined == [t |-> "undefined", s |-> <<>>, n |-> 0]
Null == [t |-> "null", s |-> <<>>, n |-> 0]
NaN == [t |-> "NaN", s |-> <<>>, n |-> 0]
Str(cs) == [t |-> "string", s |-> cs, n |-> 0]
Num(k) == [t |-> "number", s |-> <<>>, n |-> k]
JsInt(k) == Num(k * Scale)
Bool(b) == [t |-> "boolean", s |-> <<>>, n |-> IF b THEN 1 ELSE 0]

\* ToBoolean: the test of `if (x)`, `x && ...`, `x || ...`
Truthy(v) ==
    CASE v.t = "string" -> \E i \in 1..Len(v.s) : v.s[i] # ""
      [] v.t = "number" -> v.n # 0
      [] v.t = "boolean" -> v.n = 1
      [] OTHER -> FALSE

\* Number.isInteger
IsInteger(v) == v.t = "number" /\ v.n % Scale = 0

RECURSIVE Join(_, _)
\* Array.prototype.join: the elements of frags with sep between them
Join(frags, sep) ==
    IF frags = <<>> THEN <<>>
    ELSE IF Len(frags) = 1 THEN frags[1]
    ELSE frags[1] \o sep \o Join(Tail(frags), sep)

-----------------------------------------------------------------------------
(* Unary plus on a string (StringToNumber): white space is trimmed, the    *)
(* empty rest is 0, otherwise an optional sign and a decimal literal       *)
(* (digits, digits.digits, digits. or .digits); anything else is NaN.      *)
(* Exponents, hexadecimal literals and Infinity need letters outside the   *)
(* characters drawn here.  Exact for up to three fraction digits.          *)

Digits == {"0", "1", "2", "3", "4", "5", "6", "7", "8", "9"}
DigitValue == [c \in Digits |->
    CASE c = "0" -> 0 [] c = "1" -> 1 [] c = "2" -> 2 [] c = "3" -> 3 [] c = "4" -> 4
      [] c = "5" -> 5 [] c = "6" -> 6 [] c = "7" -> 7 [] c = "8" -> 8 [] c = "9" -> 9]

RECURSIVE TrimLeft(_)
TrimLeft(cs) == IF cs # <<>> /\ Head(cs) = " " THEN TrimLeft(Tail(cs)) ELSE cs

RECURSIVE TrimRight(_)
TrimRight(cs) ==
    IF cs # <<>> /\ cs[Len(cs)] = " " THEN TrimRight(SubSeq(cs, 1, Len(cs) - 1)) ELSE cs

AllDigits(cs) == \A i \in 1..Len(cs) : cs[i] \in Digits

RECURSIVE DigitsValue(_)
\* the value of a run of digits, 0 for the empty run
DigitsValue(ds) ==
    IF ds = <<>> THEN 0
    ELSE 10 * DigitsValue(SubSeq(ds, 1, Len(ds) - 1)) + DigitValue[ds[Len(ds)]]

\* the first three fraction digits, in thousandths
Thousandths(ds) ==
    LET d(i) == IF i <= Len(ds) THEN DigitValue[ds[i]] ELSE 0
    IN  100 * d(1) + 10 * d(2) + d(3)

\* StrUnsignedDecimalLiteral, as [ok, n]
UnsignedLiteral(cs) ==
    LET dots == {i \in 1..Len(cs) : cs[i] = "."}
    IN  IF dots = {}
        THEN [ok |-> cs # <<>> /\ AllDigits(cs),
              n |-> IF AllDigits(cs) THEN Scale * DigitsValue(cs) ELSE 0]
        ELSE LET p == CHOOSE i \in dots : \A j \in dots : i <= j
                 ip == SubSeq(cs, 1, p - 1)
                 fp == SubSeq(cs, p + 1, Len(cs))
             IN  [ok |-> /\ AllDigits(ip) /\ AllDigits(fp)
                         /\ (ip # <<>> \/ fp # <<>>),
                  n |-> IF AllDigits(ip) /\ AllDigits(fp)
                        THEN Scale * DigitsValue(ip) + Thousandths(fp) ELSE 0]

StringToNumber(cs) ==
    LET body == TrimRight(TrimLeft(cs))
        signed == body # <<>> /\ Head(body) \in {"-", "+"}
        lit == UnsignedLiteral(IF signed THEN Tail(body) ELSE body)
    IN  IF body = <<>> THEN Num(0)
        ELSE IF ~lit.ok THEN NaN
        ELSE IF signed /\ Head(body) = "-" THEN Num(0 - lit.n)
        ELSE Num(lit.n)

\* the unary + of `+data.minSalary`
ToNumber(v) ==
    CASE v.t = "string" -> StringToNumber(v.s)
      [] v.t = "number" -> v
      [] v.t = "boolean" -> JsInt(v.n)
      [] v.t = "null" -> Num(0)
      [] OTHER -> NaN

\* the text a template literal `${v}` gives for a value
TemplateString(v) ==
    CASE v.t = "string" -> v.s
      [] v.t = "boolean" -> IF v.n = 1 THEN <<"true">> ELSE <<"false">>
      [] v.t = "number" /\ v.n % Scale = 0 -> <<ToString(v.n \div Scale)>>
      [] v.t = "NaN" -> <<"NaN">>
      [] OTHER -> <<v.t>>

-----------------------------------------------------------------------------
(* An object is the sequence of its own properties [k, v] in Object.keys   *)
(* order (insertion order for names that are not array indices), with no   *)
(* name twice.                                                             *)

Keys(obj) == [i \in 1..Len(obj) |-> obj[i].k]
Values(obj) == [i \in 1..Len(obj) |-> obj[i].v]

Has(obj, key) == \E i \in 1..Len(obj) : obj[i].k = key

\* property read obj.key / obj[key]: undefined when the object has no such property
Get(obj, key) ==
    IF Has(obj, key)
    THEN obj[CHOOSE i \in 1..Len(obj) : obj[i].k = key].v
    ELSE Undefined

Objects(keySet, valueSet, maxLen) ==
    { o \in UNION { [1..n -> [k : keySet, v : valueSet]] : n \in 0..maxLen } :
        \A i, j \in 1..Len(o) : i # j => o[i].k # o[j].k }

\* a field-name map is a function from some field names to column names
Lookup(jsToSql, key) ==
    IF key \in DOMAIN jsToSql THEN Str(<<jsToSql[key]>>) ELSE Undefined

-----------------------------------------------------------------------------
(* helpers/sql.js                                                          *)

NoResult == [threw |-> "none", text |-> <<>>, values |-> <<>>, rows |-> <<>>]
Throw(err) == [NoResult EXCEPT !.threw = err]

\* mutant: the placeholder takes idx, not idx + 1
SetFragment_ZeroBased(jsToSql, colName, idx) ==
    LET mapped == Lookup(jsToSql, colName)
        column == IF Truthy(mapped) THEN mapped.s ELSE <<colName>>
    IN  <<"\"">> \o column \o <<"\"", "=", "$", ToString(idx)>>

\* mutant: the field-name map is not consulted
SetFragment_IgnoresMap(jsToSql, colName, idx) ==
    <<"\"", colName, "\"", "=", "$", ToString(idx + 1)>>

\* `"${jsToSql[colName] || colName}"=$${idx + 1}`
SetFragment(jsToSql, colName, idx) ==
    LET mapped == Lookup(jsToSql, colName)
        column == IF Truthy(mapped) THEN mapped.s ELSE <<colName>>
    IN  <<"\"">> \o column \o <<"\"", "=", "$", ToString(idx + 1)>>

\* keys.map((colName, idx) => ...): idx counts from 0
SetFragments(dataToUpdate, jsToSql) ==
    [i \in 1..Len(dataToUpdate) |-> SetFragment(jsToSql, Keys(dataToUpdate)[i], i - 1)]

\* mutant: null values are left out of the value array
sqlForPartialUpdate_DropsNulls(dataToUpdate, jsToSql) ==
    IF Len(Keys(dataToUpdate)) = 0
    THEN Throw("BadRequestError")
    ELSE [NoResult EXCEPT
            !.text = Join(SetFragments(dataToUpdate, jsToSql), <<", ">>),
            !.values = SelectSeq(Values(dataToUpdate), LAMBDA v : v # Null)]

\* mutant: the empty record is not refused
sqlForPartialUpdate_NoEmptyCheck(dataToUpdate, jsToSql) ==
    [NoResult EXCEPT
        !.text = Join(SetFragments(dataToUpdate, jsToSql), <<", ">>),
        !.values = Values(dataToUpdate)]

sqlForPartialUpdate(dataToUpdate, jsToSql) ==
    IF Len(Keys(dataToUpdate)) = 0
    THEN Throw("BadRequestError")
    ELSE [NoResult EXCEPT
            !.text = Join(SetFragments(dataToUpdate, jsToSql), <<", ">>),
            !.values = Values(dataToUpdate)]

-----------------------------------------------------------------------------
(* The database behind db.query.  A table is a set of rows, a row a        *)
(* function from column names to values.  A statement is its text and its  *)
(* bound values; $k in the text stands for values[k].                      *)

JobColumns == {"id", "title", "salary", "equity", "company_handle"}
CompanyColumns == {"handle", "name", "description", "num_employees", "logo_url"}
UserColumns == {"username", "password", "first_name", "last_name", "email", "is_admin"}

Statement(text, values) == [text |-> text, values |-> values]

\* the positions of the placeholders of a text, and the i-th of them
DollarPos(text) == {p \in 1..Len(text) : text[p] = "$"}
NthPos(ps, i) == CHOOSE p \in ps : Cardinality({q \in ps : q < p}) = i - 1

\* the number a placeholder's digits denote (0 when they denote none)
IndexOf(lexeme) ==
    LET ks == {k \in 1..9 : ToString(k) = lexeme}
    IN  IF ks = {} THEN 0 ELSE CHOOSE k \in ks : TRUE

\* the placeholder numbers of a text, in the order they occur
Placeholders(text) ==
    LET ps == DollarPos(text)
    IN  [i \in 1..Cardinality(ps) |-> IndexOf(text[NthPos(ps, i) + 1])]

\* lower case, for the letters used in names and titles
Lower(c) ==
    CASE c = "J" -> "j" [] c = "O" -> "o" [] c = "B" -> "b" [] c = "C" -> "c"
      [] OTHER -> c

RECURSIVE LikeMatch(_, _)
\* SQL LIKE: % matches any run of characters, _ any one character
LikeMatch(pat, str) ==
    IF pat = <<>> THEN str = <<>>
    ELSE IF Head(pat) = "%"
         THEN LikeMatch(Tail(pat), str) \/ (str # <<>> /\ LikeMatch(pat, Tail(str)))
    ELSE IF str = <<>> THEN FALSE
    ELSE /\ (Head(pat) = "_" \/ Lower(Head(pat)) = Lower(Head(str)))
         /\ LikeMatch(Tail(pat), Tail(str))

\* one comparison of a WHERE clause; a comparison with NULL is not true
Compare(cell, cmp, bound) ==
    CASE cmp = " ILIKE " ->
            cell.t = "string" /\ bound.t = "string" /\ LikeMatch(bound.s, cell.s)
      [] cmp = " >= " -> cell.t = "number" /\ bound.t = "number" /\ cell.n >= bound.n
      [] cmp = " <= " -> cell.t = "number" /\ bound.t = "number" /\ cell.n <= bound.n
      [] OTHER -> FALSE

\* the comparisons `<column> <cmp> $<k> ` of a SELECT's WHERE clause
Conjuncts(text) ==
    [i \in 1..Cardinality(DollarPos(text)) |->
        LET p == NthPos(DollarPos(text), i)
        IN  [col |-> text[p - 2], cmp |-> text[p - 1], idx |-> IndexOf(text[p + 1])]]

\* whether the statement can be executed: every placeholder has its value
\* and every value its placeholder, and every column is one of the table
SelectOk(columns, stmt) ==
    LET cs == Conjuncts(stmt.text)
    IN  /\ \A i \in 1..Len(cs) : cs[i].idx \in 1..Len(stmt.values) /\ cs[i].col \in columns
        /\ \A k \in 1..Len(stmt.values) : \E i \in 1..Len(cs) : cs[i].idx = k

\* the rows of the table that satisfy every comparison
SelectRows(table, stmt) ==
    LET cs == Conjuncts(stmt.text)
    IN  { row \in table :
            \A i \in 1..Len(cs) : Compare(row[cs[i].col], cs[i].cmp, stmt.values[cs[i].idx]) }

\* code point order of the characters used, for ORDER BY
CharRank(c) ==
    CASE c = "1" -> 1 [] c = "2" -> 2 [] c = "3" -> 3
      [] c = "B" -> 10 [] c = "C" -> 11 [] c = "J" -> 12 [] c = "O" -> 13
      [] c = "b" -> 20 [] c = "c" -> 21 [] c = "e" -> 22 [] c = "j" -> 23
      [] c = "n" -> 24 [] c = "o" -> 25 [] c = "p" -> 26 [] c = "w" -> 27
      [] OTHER -> 0

RECURSIVE TextLeq(_, _)
TextLeq(a, b) ==
    IF a = <<>> THEN TRUE
    ELSE IF b = <<>> THEN FALSE
    ELSE IF CharRank(Head(a)) # CharRank(Head(b)) THEN CharRank(Head(a)) < CharRank(Head(b))
    ELSE TextLeq(Tail(a), Tail(b))

\* NULLs sort last
CellLeq(a, b) ==
    IF b.t # "string" THEN TRUE
    ELSE IF a.t # "string" THEN FALSE
    ELSE TextLeq(a.s, b.s)

\* the orders in which ORDER BY column may return the rows (ties in any order)
Ordered(rows, column) ==
    { seq \in [1..Cardinality(rows) -> rows] :
        /\ \A i, j \in 1..Cardinality(rows) : i # j => seq[i] # seq[j]
        /\ \A i, j \in 1..Cardinality(rows) : i < j => CellLeq(seq[i][column], seq[j][column]) }

\* the assignments `"<column>"=$<k>` of an UPDATE's SET clause
Assignments(text) ==
    LET ps == {p \in 1..Len(text) : text[p] = "="}
    IN  [i \in 1..Cardinality(ps) |->
            LET p == NthPos(ps, i)
            IN  [col |-> text[p - 2], idx |-> IndexOf(text[p + 2])]]

\* the placeholder of the UPDATE's WHERE <key column> = $<k>: the last one
WhereIndex(text) == Placeholders(text)[Len(Placeholders(text))]

\* whether the UPDATE can be executed: its columns are columns of the table, no
\* column is assigned twice, and the placeholders are those of the bound values.
\* (Column types and constraints are those of the schema, which the sources
\* do not hold; they are not modelled.)
UpdateOk(columns, stmt) ==
    LET as == Assignments(stmt.text)
    IN  /\ \A i \in 1..Len(as) : as[i].col \in columns /\ as[i].idx \in 1..Len(stmt.values)
        /\ \A i, j \in 1..Len(as) : i # j => as[i].col # as[j].col
        /\ WhereIndex(stmt.text) \in 1..Len(stmt.values)

\* the row after the SET clause
UpdatedRow(row, stmt) ==
    LET as == Assignments(stmt.text)
    IN  [c \in DOMAIN row |->
            IF \E i \in 1..Len(as) : as[i].col = c
            THEN stmt.values[as[CHOOSE i \in 1..Len(as) : as[i].col = c].idx]
            ELSE row[c]]

\* the rows the WHERE clause of the UPDATE selects
UpdateTargets(table, keyColumn, stmt) ==
    { row \in table : row[keyColumn] = stmt.values[WhereIndex(stmt.text)] }

\* the table after the UPDATE
UpdatedTable(table, keyColumn, stmt) ==
    (table \ UpdateTargets(table, keyColumn, stmt))
        \cup { UpdatedRow(row, stmt) : row \in UpdateTargets(table, keyColumn, stmt) }

-----------------------------------------------------------------------------
(* models/job.js: Job.findAll                                              *)

JobBaseQuery ==
    <<"SELECT id, title, salary, equity, company_handle AS \"companyHandle\" FROM jobs ">>

NoPushes == [values |-> <<>>, frags |-> <<>>]

\* mutant: the fragment takes validValues.length as it was before the push
Push_LengthBeforePush(st, value, column, cmp) ==
    [values |-> Append(st.values, value),
     frags |-> Append(st.frags, <<column, cmp, "$", ToString(Len(st.values)), " ">>)]

\* validValues.push(value); queryStringArr.push(`<column><cmp>$${validValues.length} `)
Push(st, value, column, cmp) ==
    LET pushed == Append(st.values, value)
    IN  [values |-> pushed,
         frags |-> Append(st.frags, <<column, cmp, "$", ToString(Len(pushed)), " ">>)]

\* mutant: the predicate is emitted for any title the record holds, empty or not
JobTitleTriggered_AnyPresent(data) == Has(data, "title")

\* if(data.title)
JobTitleTriggered(data) == Truthy(Get(data, "title"))
\* if(data.minSalary && Number.isInteger(+data.minSalary))
JobMinSalaryTriggered(data) ==
    Truthy(Get(data, "minSalary")) /\ IsInteger(ToNumber(Get(data, "minSalary")))
\* mutant: if(data.hasEquity), any truthy value
JobHasEquityTriggered_Truthy(data) == Truthy(Get(data, "hasEquity"))

\* if(data.hasEquity === 'true')
JobHasEquityTriggered(data) == Get(data, "hasEquity") = Str(<<"t", "r", "u", "e">>)

\* mutant: the title is written into the clause text instead of being bound
JobFilterPushes_SplicesTitle(data) ==
    LET s1 == IF JobTitleTriggered(data)
              THEN [values |-> <<>>,
                    frags |-> << <<"title", " ILIKE ", "'%">>
                                 \o TemplateString(Get(data, "title")) \o <<"%'", " ">> >>]
              ELSE NoPushes
        s2 == IF JobMinSalaryTriggered(data)
              THEN Push(s1, ToNumber(Get(data, "minSalary")), "salary", " >= ")
              ELSE s1
    IN  IF JobHasEquityTriggered(data)
        THEN Push(s2, JsInt(0), "equity", " >= ")
        ELSE s2

RECURSIVE PushesInKeyOrder(_, _, _)
PushesInKeyOrder(data, i, st) ==
    IF i > Len(data) THEN st
    ELSE PushesInKeyOrder(data, i + 1,
            CASE data[i].k = "title" /\ JobTitleTriggered(data) ->
                    Push(st, Str(<<"%">> \o TemplateString(data[i].v) \o <<"%">>),
                         "title", " ILIKE ")
              [] data[i].k = "minSalary" /\ JobMinSalaryTriggered(data) ->
                    Push(st, ToNumber(data[i].v), "salary", " >= ")
              [] data[i].k = "hasEquity" /\ JobHasEquityTriggered(data) ->
                    Push(st, JsInt(0), "equity", " >= ")
              [] OTHER -> st)

\* mutant: the predicates are pushed in the order of the keys of the filter record
JobFilterPushes_InKeyOrder(data) == PushesInKeyOrder(data, 1, NoPushes)

\* validValues and queryStringArr after the three conditional pushes
JobFilterPushes(data) ==
    LET s1 == IF JobTitleTriggered(data)
              THEN Push(NoPushes,
                        Str(<<"%">> \o TemplateString(Get(data, "title")) \o <<"%">>),
                        "title", " ILIKE ")
              ELSE NoPushes
        s2 == IF JobMinSalaryTriggered(data)
              THEN Push(s1, ToNumber(Get(data, "minSalary")), "salary", " >= ")
              ELSE s1
    IN  IF JobHasEquityTriggered(data)
        THEN Push(s2, JsInt(0), "equity", " >= ")
        ELSE s2

\* baseQuery + queryString, with [...validValues]
JobFilterStatement(data) ==
    LET pushes == JobFilterPushes(data)
        queryString ==
            IF Len(pushes.values) > 0
            THEN <<"WHERE ">> \o Join(pushes.frags, <<"AND ">>) \o <<" ORDER BY title">>
            ELSE <<" ORDER BY title">>
    IN  Statement(JobBaseQuery \o queryString, pushes.values)

\* the row as the SELECT list names its columns
JobRecord(row) ==
    [id |-> row["id"], title |-> row["title"], salary |-> row["salary"],
     equity |-> row["equity"], companyHandle |-> row["company_handle"]]

-----------------------------------------------------------------------------
(* models/company.js: Company.findAll                                      *)

CompanyBaseQuery ==
    <<"SELECT handle, name, description, num_employees AS \"numEmployees\", logo_url AS \"logoUrl\" FROM companies ">>

\* if(data.name)
CompanyNameTriggered(data) == Truthy(Get(data, "name"))
\* if(data.minEmployees && Number.isInteger(+data.minEmployees))
CompanyMinTriggered(data) ==
    Truthy(Get(data, "minEmployees")) /\ IsInteger(ToNumber(Get(data, "minEmployees")))
\* if(data.maxEmployees && Number.isInteger(+data.maxEmployees))
CompanyMaxTriggered(data) ==
    Truthy(Get(data, "maxEmployees")) /\ IsInteger(ToNumber(Get(data, "maxEmployees")))

\* values and queryStringArr after the three conditional pushes
CompanyFilterPushes(data) ==
    LET s1 == IF CompanyNameTriggered(data)
              THEN Push(NoPushes,
                        Str(<<"%">> \o TemplateString(Get(data, "name")) \o <<"%">>),
                        "name", " ILIKE ")
              ELSE NoPushes
        s2 == IF CompanyMinTriggered(data)
              THEN Push(s1, ToNumber(Get(data, "minEmployees")), "num_employees", " >= ")
              ELSE s1
    IN  IF CompanyMaxTriggered(data)
        THEN Push(s2, ToNumber(Get(data, "maxEmployees")), "num_employees", " <= ")
        ELSE s2

CompanyFilterStatement(data) ==
    LET pushes == CompanyFilterPushes(data)
        queryString ==
            IF Len(pushes.values) > 0
            THEN <<"WHERE ">> \o Join(pushes.frags, <<"AND ">>) \o <<" ORDER BY name">>
            ELSE <<" ORDER BY name">>
    IN  Statement(CompanyBaseQuery \o queryString, pushes.values)

CompanyRecord(row) ==
    [handle |-> row["handle"], name |-> row["name"], description |-> row["description"],
     numEmployees |-> row["num_employees"], logoUrl |-> row["logo_url"]]

\* db.query of a SELECT and the handler's answer: the rows in ORDER BY order,
\* NotFoundError for no row when notFoundIfEmpty
FindAllResults(table, stmt, columns, orderBy, notFoundIfEmpty) ==
    IF ~SelectOk(columns, stmt) THEN {Throw("DbError")}
    ELSE IF notFoundIfEmpty /\ SelectRows(table, stmt) = {} THEN {Throw("NotFoundError")}
    ELSE { [NoResult EXCEPT !.rows = rows] : rows \in Ordered(SelectRows(table, stmt), orderBy) }

-----------------------------------------------------------------------------
(* The update facades: Job.update, Company.update, User.update             *)

JobUpdateMap == [k \in {"numEmployees", "logoUrl"} |->
    IF k = "numEmployees" THEN "num_employees" ELSE "logo_url"]
CompanyUpdateMap == [k \in {"numEmployees", "logoUrl"} |->
    IF k = "numEmployees" THEN "num_employees" ELSE "logo_url"]
UserUpdateMap == [k \in {"firstName", "lastName", "isAdmin"} |->
    CASE k = "firstName" -> "first_name" [] k = "lastName" -> "last_name"
      [] OTHER -> "is_admin"]

\* bcrypt.hash(password, BCRYPT_WORK_FACTOR): the hash is the text tagged "$2b$"
BcryptHash(password) == Str(<<"$2b$">> \o TemplateString(password))

\* if (data.password) data.password = await bcrypt.hash(data.password, ...)
HashedPassword(data) ==
    [i \in 1..Len(data) |->
        IF data[i].k = "password" /\ Truthy(data[i].v)
        THEN [k |-> "password", v |-> BcryptHash(data[i].v)]
        ELSE data[i]]

\* mutant: the row key takes the placeholder values.length, that of the last value
UpdateStatement_KeyAtLength(head, set, whereKey, returning, key) ==
    Statement(<<head>> \o set.text
                  \o <<whereKey, "$", ToString(Len(set.values)), returning>>,
              Append(set.values, key))

\* `UPDATE <table> SET ${setCols} WHERE <key column> = $(values.length + 1)
\*  RETURNING ...`, with [...values, key]
UpdateStatement(head, set, whereKey, returning, key) ==
    Statement(<<head>> \o set.text
                  \o <<whereKey, "$", ToString(Len(set.values) + 1), returning>>,
              Append(set.values, key))

JobUpdateStatement(id, data) ==
    UpdateStatement("UPDATE jobs SET ", sqlForPartialUpdate(data, JobUpdateMap),
        " WHERE id = ",
        " RETURNING id, title, salary, equity, company_handle AS \"companyHandle\"", id)

CompanyUpdateStatement(handle, data) ==
    UpdateStatement("UPDATE companies SET ", sqlForPartialUpdate(data, CompanyUpdateMap),
        " WHERE handle = ",
        " RETURNING handle, name, description, num_employees AS \"numEmployees\", logo_url AS \"logoUrl\"",
        handle)

UserUpdateStatement(username, data) ==
    UpdateStatement("UPDATE users SET ",
        sqlForPartialUpdate(HashedPassword(data), UserUpdateMap),
        " WHERE username = ",
        " RETURNING username, first_name AS \"firstName\", last_name AS \"lastName\", email, is_admin AS \"isAdmin\"",
        username)

UserRecord(row) ==
    [username |-> row["username"], firstName |-> row["first_name"],
     lastName |-> row["last_name"], email |-> row["email"], isAdmin |-> row["is_admin"]]

\* what an update facade does once sqlForPartialUpdate has answered: the error
\* of the helper, or the statement issued, the table after it and the answer
\* (result.rows[0], NotFoundError without it)
UpdateOutcome(table, columns, keyColumn, set, stmt) ==
    IF set.threw # "none"
    THEN [ret |-> Throw(set.threw), issued |-> <<>>, table |-> table]
    ELSE IF ~UpdateOk(columns, stmt)
    THEN [ret |-> Throw("DbError"), issued |-> <<stmt>>, table |-> table]
    ELSE IF UpdateTargets(table, keyColumn, stmt) = {}
    THEN [ret |-> Throw("NotFoundError"), issued |-> <<stmt>>, table |-> table]
    ELSE [ret |-> [NoResult EXCEPT !.rows =
                      <<UpdatedRow(CHOOSE row \in UpdateTargets(table, keyColumn, stmt) : TRUE,
                                   stmt)>>],
          issued |-> <<stmt>>,
          table |-> UpdatedTable(table, keyColumn, stmt)]

-----------------------------------------------------------------------------
(* models/job.js: Job.create, Job.get, Job.remove; models/company.js:      *)
(* Company.remove                                                          *)

\* `<column> = $k`: a comparison with NULL is not true; an undefined parameter
\* is sent as NULL
SqlEqual(cell, bound) ==
    /\ cell.t # "null"
    /\ bound.t \notin {"null", "undefined"}
    /\ cell = bound

\* an undefined parameter is stored as NULL
Stored(v) == IF v.t = "undefined" THEN Null ELSE v

\* SELECT handle FROM companies WHERE handle = $1
CompanyExists(table, companyHandle) ==
    \E row \in table : SqlEqual(row["handle"], companyHandle)

\* SELECT * FROM jobs WHERE title = $1 AND salary = $2 AND equity = $3
\* AND company_handle = $4
JobDupes(table, job) ==
    { row \in table :
        /\ SqlEqual(row["title"], job.title)
        /\ SqlEqual(row["salary"], job.salary)
        /\ SqlEqual(row["equity"], job.equity)
        /\ SqlEqual(row["company_handle"], job.companyHandle) }

\* the row INSERT INTO jobs (title, salary, equity, company_handle) stores; the
\* id is the next value of the id sequence
InsertedJob(seq, job) ==
    [id |-> JsInt(seq), title |-> Stored(job.title), salary |-> Stored(job.salary),
     equity |-> Stored(job.equity), company_handle |-> Stored(job.companyHandle)]

\* Job.create: the answer, the jobs table and the id sequence after it
JobCreateOutcome(table, companyTable, seq, job) ==
    IF ~CompanyExists(companyTable, job.companyHandle)
    THEN [ret |-> Throw("BadRequestError"), table |-> table, seq |-> seq]
    ELSE IF Cardinality(JobDupes(table, job)) > 0
    THEN [ret |-> Throw("BadRequestError"), table |-> table, seq |-> seq]
    ELSE [ret |-> [NoResult EXCEPT !.rows = <<JobRecord(InsertedJob(seq, job))>>],
          table |-> table \cup {InsertedJob(seq, job)},
          seq |-> seq + 1]

\* SELECT ... FROM jobs WHERE id = $1
JobsWithId(table, id) == { row \in table : SqlEqual(row["id"], id) }

\* Job.get: the job, NotFoundError without it
JobGet(table, id) ==
    IF JobsWithId(table, id) = {}
    THEN Throw("NotFoundError")
    ELSE [NoResult EXCEPT !.rows = <<JobRecord(CHOOSE row \in JobsWithId(table, id) : TRUE)>>]

\* DELETE FROM <table> WHERE <key column> = $1 RETURNING <key column>
DeleteTargets(table, keyColumn, key) == { row \in table : SqlEqual(row[keyColumn], key) }

\* remove: NotFoundError when the DELETE returned no row
RemoveOutcome(table, keyColumn, key) ==
    IF DeleteTargets(table, keyColumn, key) = {}
    THEN [ret |-> Throw("NotFoundError"), table |-> table]
    ELSE [ret |-> NoResult, table |-> table \ DeleteTargets(table, keyColumn, key)]

-----------------------------------------------------------------------------
(* models/user.js: User.get, User.applyForJob.  The applications table is  *)
(* the sequence of its rows [username, job_id] in insertion order.         *)

\* SELECT ... FROM users AS u LEFT JOIN applications AS a ... WHERE u.username = $1
UsersNamed(table, username) == { row \in table : SqlEqual(row["username"], username) }

\* User.get, as far as applyForJob uses it: NotFoundError for no such user
UserGet(table, username) ==
    IF UsersNamed(table, username) = {} THEN Throw("NotFoundError") ELSE NoResult

\* SELECT username, job_id FROM applications WHERE username = $1 AND job_id = $2
ApplicationsOf(table, username, jobId) ==
    SelectSeq(table, LAMBDA row :
        SqlEqual(row.username, username) /\ SqlEqual(row.job_id, jobId))

-----------------------------------------------------------------------------
(* models/user.js: User.register                                           *)

\* INSERT INTO users (username, password, first_name, last_name, email, is_admin)
\* VALUES ($1, ..., $6), with the hashed password as the second value
RegisterStatement(user) ==
    Statement(<<"INSERT INTO users (username, password, first_name, last_name, email, is_admin) VALUES (",
                "$", "1", ", ", "$", "2", ", ", "$", "3", ", ", "$", "4", ", ",
                "$", "5", ", ", "$", "6", ")">>,
              <<user.username, BcryptHash(user.password), user.firstName, user.lastName,
                user.email, user.isAdmin>>)

\* the row the INSERT stores
RegisteredRow(stmt) ==
    [username |-> Stored(stmt.values[1]), password |-> Stored(stmt.values[2]),
     first_name |-> Stored(stmt.values[3]), last_name |-> Stored(stmt.values[4]),
     email |-> Stored(stmt.values[5]), is_admin |-> Stored(stmt.values[6])]

\* User.register: BadRequestError for a taken username, else the INSERT and the
\* returned user
RegisterOutcome(table, user) ==
    IF UsersNamed(table, user.username) # {}
    THEN [ret |-> Throw("BadRequestError"), issued |-> <<>>, table |-> table]
    ELSE [ret |-> [NoResult EXCEPT
                      !.rows = <<UserRecord(RegisteredRow(RegisterStatement(user)))>>],
          issued |-> <<RegisterStatement(user)>>,
          table |-> table \cup {RegisteredRow(RegisterStatement(user))}]

-----------------------------------------------------------------------------
(* Inputs.                                                                 *)

FieldNames == {"firstName", "numEmployees", "title", "noKey"}
ColNames == {"first_name", "num_employees"}
UpdateValues == {Null, Str(<<"Bob">>), JsInt(32), Bool(TRUE)}

UpdateRecords == Objects(FieldNames, UpdateValues, MaxFields)
FieldNameMaps == UNION { [D -> ColNames] : D \in SUBSET FieldNames }

\* the records and row keys handed to the update facades
FacadeValues == {Null, Str(<<"Bob">>)}
FacadeRecords == Objects(FieldNames, FacadeValues, MaxFields)
\* records handed to Job.update that name the id or the company of the job, under
\* the column names and under the name of the returned record, next to a title
JobKeyFields ==
    { [k |-> "id", v |-> JsInt(3)],
      [k |-> "company_handle", v |-> Str(<<"c", "2">>)],
      [k |-> "companyHandle", v |-> Str(<<"c", "2">>)],
      [k |-> "title", v |-> Str(<<"n", "e", "w">>)] }
JobUpdateRecords ==
    FacadeRecords \cup
    { o \in UNION { [1..n -> JobKeyFields] : n \in 1..MaxFields } :
        \A i, j \in 1..Len(o) : i # j => o[i].k # o[j].k }
JobIds == {JsInt(1), JsInt(0)}
CompanyHandles == {Str(<<"c", "1">>), Str(<<"n", "o", "p", "e">>)}
Usernames == {Str(<<"u1">>), Str(<<"nope">>)}

\* the sequences of distinct keys: the key orders a filter object can have
KeyOrders(keySet) ==
    { ks \in UNION { [1..n -> keySet] : n \in 0..Cardinality(keySet) } :
        \A i, j \in 1..Len(ks) : i # j => ks[i] # ks[j] }

\* raw texts of a query string, character by character
RawChars == {"0", "1", "a", " ", ".", "-"}
RawTexts == UNION { [1..n -> RawChars] : n \in 0..MaxRawLen }

JobFilterKeys == {"title", "minSalary", "hasEquity"}
TitleRaws ==
    { Str(<<>>), Str(<<"j", "o", "b", "1">>), Str(<<"J", "O", "B">>),
      Str(<<"n", "o", "p", "e">>) }
MinSalaryRaws == { Str(cs) : cs \in RawTexts }
HasEquityRaws ==
    { Str(<<"t", "r", "u", "e">>), Str(<<"f", "a", "l", "s", "e">>),
      Str(<<"T", "r", "u", "e">>), Str(<<"1">>), Str(<<>>), Bool(TRUE) }

CompanyFilterKeys == {"name", "minEmployees", "maxEmployees"}
NameRaws == { Str(<<>>), Str(<<"c", "1">>), Str(<<"C">>), Str(<<"n", "o", "p", "e">>) }
EmployeesRaws ==
    { Str(<<>>), Str(<<"1">>), Str(<<"2">>), Str(<<" ">>), Str(<<"a">>),
      Str(<<"1", ".", "5">>) }

\* the object with the keys ks in that order and the value val[k] under key k
ObjectOf(ks, val) == [i \in 1..Len(ks) |-> [k |-> ks[i], v |-> val[ks[i]]]]

\* the jobs handed to Job.create: salary and equity may be null
CreateTitles == {Str(<<"n", "e", "w">>)}
CreateSalaries == {JsInt(1), Null}
CreateEquities == {Num(0), Null}
CreateHandles == {Str(<<"c", "1">>), Str(<<"n", "o", "p", "e">>)}

\* the passwords callers supply, the empty one among them
Passwords == {Str(<<>>), Str(<<"p", "w">>), Str(<<"password1">>)}
\* the records handed to User.update that set a password, alone or after a name
PasswordRecords ==
    { <<[k |-> "password", v |-> p]>> : p \in Passwords } \cup
    { <<[k |-> "firstName", v |-> Str(<<"Bob">>)], [k |-> "password", v |-> p]>> :
        p \in Passwords }
\* the usernames handed to User.register: a taken one and a free one
RegisterUsernames == {Str(<<"u1">>), Str(<<"new">>)}

\* the users and jobs of the calls of User.applyForJob
ApplyUsernames == {Str(<<"u1">>), Str(<<"nope">>)}
ApplyJobIds == {JsInt(1), JsInt(2), JsInt(0)}

\* the keys handed to Job.remove and Company.remove
RemoveIds == {JsInt(1), JsInt(2), JsInt(0)}
RemoveHandles == {Str(<<"c", "1">>), Str(<<"c", "2">>), Str(<<"n", "o", "p", "e">>)}

\* filter records in the order { title, minSalary, hasEquity } of the route,
\* with any of the three left out
JobFilterSamples ==
    { ObjectOf(ks, val) :
        ks \in { o \in KeyOrders(JobFilterKeys) :
                    \A i, j \in 1..Len(o) : i < j =>
                        \/ o[i] = "title"
                        \/ o[j] = "hasEquity" },
        val \in [JobFilterKeys ->
                   { Str(<<>>), Str(<<"j", "o", "b", "1">>), Str(<<"J", "O", "B">>),
                     Str(<<"_">>), Str(<<"j", "%", "1">>), Str(<<"n", "o", "p", "e">>),
                     Str(<<"1">>), Str(<<"2">>), Str(<<"a">>),
                     Str(<<"t", "r", "u", "e">>) }] }

CompanyFilterSamples ==
    { ObjectOf(ks, val) :
        ks \in { o \in KeyOrders(CompanyFilterKeys) :
                    \A i, j \in 1..Len(o) : i < j =>
                        \/ o[i] = "name"
                        \/ o[j] = "maxEmployees" },
        val \in [CompanyFilterKeys ->
                   { Str(<<>>), Str(<<"c", "1">>), Str(<<"C">>), Str(<<"_">>),
                     Str(<<"n", "o", "p", "e">>), Str(<<"1">>), Str(<<"2">>),
                     Str(<<"a">>) }] }

-----------------------------------------------------------------------------
(* The tables as the tests seed them.                                      *)

SeedJobs ==
    { [id |-> JsInt(1), title |-> Str(<<"j", "o", "b", "1">>), salary |-> JsInt(1),
       equity |-> Num(1), company_handle |-> Str(<<"c", "1">>)],
      [id |-> JsInt(2), title |-> Str(<<"j", "o", "b", "2">>), salary |-> JsInt(2),
       equity |-> Num(2), company_handle |-> Str(<<"c", "2">>)] }

SeedCompanies ==
    { [handle |-> Str(<<"c", "1">>), name |-> Str(<<"C", "1">>),
       description |-> Str(<<"Desc1">>), num_employees |-> JsInt(1),
       logo_url |-> Str(<<"http://c1.img">>)],
      [handle |-> Str(<<"c", "2">>), name |-> Str(<<"C", "2">>),
       description |-> Str(<<"Desc2">>), num_employees |-> JsInt(2),
       logo_url |-> Str(<<"http://c2.img">>)] }

SeedUsers ==
    { [username |-> Str(<<"u1">>), password |-> Str(<<"$2b$", "password1">>),
       first_name |-> Str(<<"U1F">>), last_name |-> Str(<<"U1L">>),
       email |-> Str(<<"u1@email.com">>), is_admin |-> Bool(TRUE)],
      [username |-> Str(<<"u2">>), password |-> Str(<<"$2b$", "password2">>),
       first_name |-> Str(<<"U2F">>), last_name |-> Str(<<"U2L">>),
       email |-> Str(<<"u2@email.com">>), is_admin |-> Bool(FALSE)] }

-----------------------------------------------------------------------------

NoArgs == [data |-> <<>>, map |-> <<>>, key |-> Undefined, nodata |-> FALSE]

\* the concurrent callers of User.applyForJob
Callers == {"a", "b"}
\* a caller with no call under way
NoCall == [pc |-> "idle", username |-> Undefined, jobId |-> Undefined, job |-> Undefined,
           ret |-> NoResult]

\* op names the handler whose result the state holds; "idle" between calls
Init ==
    /\ op = "idle"
    /\ args = NoArgs
    /\ ret = NoResult
    /\ issued = <<>>
    /\ jobs = SeedJobs
    /\ companies = SeedCompanies
    /\ users = SeedUsers
    /\ jobSeq = Cardinality(SeedJobs) + 1
    /\ applications = <<>>
    /\ calls = [c \in Callers |-> NoCall]

SqlForPartialUpdateCall(records) ==
    /\ op = "idle"
    /\ \E dataToUpdate \in records, jsToSql \in FieldNameMaps :
        /\ op' = "sqlForPartialUpdate"
        /\ args' = [NoArgs EXCEPT !.data = dataToUpdate, !.map = jsToSql]
        /\ ret' = sqlForPartialUpdate(dataToUpdate, jsToSql)
        /\ issued' = <<>>
        /\ UNCHANGED <<jobs, companies, users, rest>>

CallSqlForPartialUpdate == SqlForPartialUpdateCall(UpdateRecords)

\* the helper on the records of at most one field
CallSqlForPartialUpdateShort ==
    SqlForPartialUpdateCall({ d \in UpdateRecords : Len(d) <= 1 })

\* Job.update(id, data)
JobUpdate ==
    /\ op = "idle"
    /\ \E id \in JobIds, data \in JobUpdateRecords :
        LET out == UpdateOutcome(jobs, JobColumns, "id",
                                 sqlForPartialUpdate(data, JobUpdateMap),
                                 JobUpdateStatement(id, data))
        IN  /\ op' = "Job.update"
            /\ args' = [NoArgs EXCEPT !.data = data, !.key = id]
            /\ issued' = out.issued
            /\ ret' = [out.ret EXCEPT !.rows =
                          [i \in 1..Len(out.ret.rows) |-> JobRecord(out.ret.rows[i])]]
            /\ jobs' = out.table
            /\ UNCHANGED <<companies, users, rest>>

\* Company.update(handle, data)
CompanyUpdate ==
    /\ op = "idle"
    /\ \E handle \in CompanyHandles, data \in FacadeRecords :
        LET out == UpdateOutcome(companies, CompanyColumns, "handle",
                                 sqlForPartialUpdate(data, CompanyUpdateMap),
                                 CompanyUpdateStatement(handle, data))
        IN  /\ op' = "Company.update"
            /\ args' = [NoArgs EXCEPT !.data = data, !.key = handle]
            /\ issued' = out.issued
            /\ ret' = [out.ret EXCEPT !.rows =
                          [i \in 1..Len(out.ret.rows) |-> CompanyRecord(out.ret.rows[i])]]
            /\ companies' = out.table
            /\ UNCHANGED <<jobs, users, rest>>

\* User.update(username, data)
UserUpdateCall(records) ==
    /\ op = "idle"
    /\ \E username \in Usernames, data \in records :
        LET out == UpdateOutcome(users, UserColumns, "username",
                                 sqlForPartialUpdate(HashedPassword(data), UserUpdateMap),
                                 UserUpdateStatement(username, data))
        IN  /\ op' = "User.update"
            /\ args' = [NoArgs EXCEPT !.data = data, !.key = username]
            /\ issued' = out.issued
            /\ ret' = [out.ret EXCEPT !.rows =
                          [i \in 1..Len(out.ret.rows) |-> UserRecord(out.ret.rows[i])]]
            /\ users' = out.table
            /\ UNCHANGED <<jobs, companies, rest>>

UserUpdate == UserUpdateCall(FacadeRecords)

\* User.update on the records that set a password
UserUpdatePassword == UserUpdateCall(PasswordRecords)

\* User.register({ username, password, firstName, lastName, email, isAdmin })
UserRegister ==
    /\ op = "idle"
    /\ \E username \in RegisterUsernames, password \in Passwords :
        LET data == <<[k |-> "username", v |-> username], [k |-> "password", v |-> password],
                      [k |-> "firstName", v |-> Str(<<"Test">>)],
                      [k |-> "lastName", v |-> Str(<<"Tester">>)],
                      [k |-> "email", v |-> Str(<<"test@test.com">>)],
                      [k |-> "isAdmin", v |-> Bool(FALSE)]>>
            user == [username |-> Get(data, "username"), password |-> Get(data, "password"),
                     firstName |-> Get(data, "firstName"), lastName |-> Get(data, "lastName"),
                     email |-> Get(data, "email"), isAdmin |-> Get(data, "isAdmin")]
            out == RegisterOutcome(users, user)
        IN  /\ op' = "User.register"
            /\ args' = [NoArgs EXCEPT !.data = data]
            /\ issued' = out.issued
            /\ ret' = out.ret
            /\ users' = out.table
            /\ UNCHANGED <<jobs, companies, rest>>

\* mutant: the call without a filter record also answers NotFoundError for no row
JobFindAllNoData_NotFoundIfEmpty ==
    LET stmt == Statement(JobBaseQuery \o <<"ORDER BY title">>, <<>>)
    IN  /\ op = "idle"
        /\ op' = "Job.findAll"
        /\ args' = [NoArgs EXCEPT !.nodata = TRUE]
        /\ issued' = <<stmt>>
        /\ \E r \in FindAllResults(jobs, stmt, JobColumns, "title", TRUE) :
              ret' = [r EXCEPT !.rows = [i \in 1..Len(r.rows) |-> JobRecord(r.rows[i])]]
        /\ UNCHANGED <<jobs, companies, users, rest>>

\* Job.findAll(): if(!data), the unfiltered statement, no NotFoundError
JobFindAllNoData ==
    LET stmt == Statement(JobBaseQuery \o <<"ORDER BY title">>, <<>>)
    IN  /\ op = "idle"
        /\ op' = "Job.findAll"
        /\ args' = [NoArgs EXCEPT !.nodata = TRUE]
        /\ issued' = <<stmt>>
        /\ \E r \in FindAllResults(jobs, stmt, JobColumns, "title", FALSE) :
              ret' = [r EXCEPT !.rows = [i \in 1..Len(r.rows) |-> JobRecord(r.rows[i])]]
        /\ UNCHANGED <<jobs, companies, users, rest>>

\* Job.findAll(data)
JobFindAllData(data) ==
    LET stmt == JobFilterStatement(data)
    IN  /\ op' = "Job.findAll"
        /\ args' = [NoArgs EXCEPT !.data = data]
        /\ issued' = <<stmt>>
        /\ \E r \in FindAllResults(jobs, stmt, JobColumns, "title", TRUE) :
              ret' = [r EXCEPT !.rows = [i \in 1..Len(r.rows) |-> JobRecord(r.rows[i])]]
        /\ UNCHANGED <<jobs, companies, users, rest>>

JobFindAll ==
    /\ op = "idle"
    /\ \E ks \in KeyOrders(JobFilterKeys), t \in TitleRaws, m \in MinSalaryRaws,
          h \in HasEquityRaws :
        JobFindAllData(ObjectOf(ks, [k \in JobFilterKeys |->
            CASE k = "title" -> t [] k = "minSalary" -> m [] OTHER -> h]))

\* Company.findAll(): if(!data)
CompanyFindAllNoData ==
    LET stmt == Statement(CompanyBaseQuery \o <<"ORDER BY name">>, <<>>)
    IN  /\ op = "idle"
        /\ op' = "Company.findAll"
        /\ args' = [NoArgs EXCEPT !.nodata = TRUE]
        /\ issued' = <<stmt>>
        /\ \E r \in FindAllResults(companies, stmt, CompanyColumns, "name", FALSE) :
              ret' = [r EXCEPT !.rows = [i \in 1..Len(r.rows) |-> CompanyRecord(r.rows[i])]]
        /\ UNCHANGED <<jobs, companies, users, rest>>

\* Company.findAll(data)
CompanyFindAllData(data) ==
    LET stmt == CompanyFilterStatement(data)
    IN  /\ op' = "Company.findAll"
        /\ args' = [NoArgs EXCEPT !.data = data]
        /\ issued' = <<stmt>>
        /\ \E r \in FindAllResults(companies, stmt, CompanyColumns, "name", TRUE) :
              ret' = [r EXCEPT !.rows = [i \in 1..Len(r.rows) |-> CompanyRecord(r.rows[i])]]
        /\ UNCHANGED <<jobs, companies, users, rest>>

CompanyFindAll ==
    /\ op = "idle"
    /\ \E ks \in KeyOrders(CompanyFilterKeys), nm \in NameRaws, lo \in EmployeesRaws,
          hi \in EmployeesRaws :
        CompanyFindAllData(ObjectOf(ks, [k \in CompanyFilterKeys |->
            CASE k = "name" -> nm [] k = "minEmployees" -> lo [] OTHER -> hi]))

\* Job.create({ title, salary, equity, companyHandle })
JobCreate ==
    /\ op = "idle"
    /\ jobSeq <= MaxJobId
    /\ \E t \in CreateTitles, s \in CreateSalaries, e \in CreateEquities,
          h \in CreateHandles :
        LET data == <<[k |-> "title", v |-> t], [k |-> "salary", v |-> s],
                      [k |-> "equity", v |-> e], [k |-> "companyHandle", v |-> h]>>
            job == [title |-> Get(data, "title"), salary |-> Get(data, "salary"),
                    equity |-> Get(data, "equity"),
                    companyHandle |-> Get(data, "companyHandle")]
            out == JobCreateOutcome(jobs, companies, jobSeq, job)
        IN  /\ op' = "Job.create"
            /\ args' = [NoArgs EXCEPT !.data = data]
            /\ ret' = out.ret
            /\ issued' = <<>>
            /\ jobs' = out.table
            /\ jobSeq' = out.seq
            /\ UNCHANGED <<companies, users, applications, calls>>

\* Job.remove(id)
JobRemove ==
    /\ op = "idle"
    /\ \E id \in RemoveIds :
        LET out == RemoveOutcome(jobs, "id", id)
        IN  /\ op' = "Job.remove"
            /\ args' = [NoArgs EXCEPT !.key = id]
            /\ ret' = out.ret
            /\ issued' = <<>>
            /\ jobs' = out.table
            /\ UNCHANGED <<companies, users, rest>>

\* Company.remove(handle).  What the DELETE does with the jobs of the company
\* is the schema's choice, which these sources do not hold: the jobs go with
\* the company, or stay, or the DELETE is refused.
CompanyRemove ==
    /\ op = "idle"
    /\ \E handle \in RemoveHandles :
        LET out == RemoveOutcome(companies, "handle", handle)
            referring == { row \in jobs : SqlEqual(row["company_handle"], handle) }
        IN  /\ op' = "Company.remove"
            /\ args' = [NoArgs EXCEPT !.key = handle]
            /\ issued' = <<>>
            /\ \/ /\ ret' = out.ret
                  /\ companies' = out.table
                  /\ jobs' \in {jobs, jobs \ referring}
               \/ /\ referring # {}
                  /\ out.ret.threw = "none"
                  /\ ret' = Throw("DbError")
                  /\ UNCHANGED <<companies, jobs>>
            /\ UNCHANGED <<users, rest>>

\* Job.findAll(data) on the sampled filter records
JobFindAllSampled ==
    /\ op = "idle"
    /\ \E data \in JobFilterSamples : JobFindAllData(data)

\* Company.findAll(data) on the sampled filter records
CompanyFindAllSampled ==
    /\ op = "idle"
    /\ \E data \in CompanyFilterSamples : CompanyFindAllData(data)

\* User.applyForJob(username, jobId) is called: it runs up to its first await
ApplyForJob(c) ==
    /\ calls[c].pc = "idle"
    /\ \E username \in ApplyUsernames, jobId \in ApplyJobIds :
        calls' = [calls EXCEPT ![c] =
                    [NoCall EXCEPT !.pc = "checkForDupe", !.username = username,
                                   !.jobId = jobId]]
    /\ UNCHANGED <<op, args, ret, issued, jobs, companies, users, jobSeq, applications>>

\* mutant: the duplicate check does not end the call
ApplyCheckForDupe_NoThrow(c) ==
    /\ calls[c].pc = "checkForDupe"
    /\ calls' = [calls EXCEPT ![c].pc = "User.get"]
    /\ UNCHANGED <<op, args, ret, issued, jobs, companies, users, jobSeq, applications>>

\* the duplicate check has answered: BadRequestError for a row, User.get next
ApplyCheckForDupe(c) ==
    /\ calls[c].pc = "checkForDupe"
    /\ calls' = [calls EXCEPT ![c] =
                    IF Len(ApplicationsOf(applications, calls[c].username, calls[c].jobId)) > 0
                    THEN [@ EXCEPT !.pc = "done", !.ret = Throw("BadRequestError")]
                    ELSE [@ EXCEPT !.pc = "User.get"]]
    /\ UNCHANGED <<op, args, ret, issued, jobs, companies, users, jobSeq, applications>>

\* User.get(username) has answered
ApplyGetUser(c) ==
    /\ calls[c].pc = "User.get"
    /\ calls' = [calls EXCEPT ![c] =
                    IF UserGet(users, calls[c].username).threw # "none"
                    THEN [@ EXCEPT !.pc = "done", !.ret = UserGet(users, calls[c].username)]
                    ELSE [@ EXCEPT !.pc = "Job.get"]]
    /\ UNCHANGED <<op, args, ret, issued, jobs, companies, users, jobSeq, applications>>

\* Job.get(jobId) has answered
ApplyGetJob(c) ==
    /\ calls[c].pc = "Job.get"
    /\ calls' = [calls EXCEPT ![c] =
                    IF JobGet(jobs, calls[c].jobId).threw # "none"
                    THEN [@ EXCEPT !.pc = "done", !.ret = JobGet(jobs, calls[c].jobId)]
                    ELSE [@ EXCEPT !.pc = "insert",
                                   !.job = JobGet(jobs, calls[c].jobId).rows[1].id]]
    /\ UNCHANGED <<op, args, ret, issued, jobs, companies, users, jobSeq, applications>>

\* INSERT INTO applications (username, job_id) VALUES ($1, $2) RETURNING job_id,
\* and the return of application.jobId.  Whether the table refuses a second row
\* for the same user and job is the schema's choice, which these sources do
\* not hold: the INSERT of such a row stores it or fails.
ApplyInsert(c) ==
    /\ calls[c].pc = "insert"
    /\ \/ /\ applications' =
                Append(applications, [username |-> calls[c].username, job_id |-> calls[c].job])
          /\ calls' = [calls EXCEPT ![c] =
                          [@ EXCEPT !.pc = "done",
                                    !.ret = [NoResult EXCEPT !.rows = <<calls[c].job>>]]]
       \/ /\ Len(ApplicationsOf(applications, calls[c].username, calls[c].job)) > 0
          /\ calls' = [calls EXCEPT ![c] = [@ EXCEPT !.pc = "done", !.ret = Throw("DbError")]]
          /\ UNCHANGED applications
    /\ UNCHANGED <<op, args, ret, issued, jobs, companies, users, jobSeq>>

\* the caller of applyForJob takes the answer
ApplyReturn(c) ==
    /\ calls[c].pc = "done"
    /\ calls' = [calls EXCEPT ![c] = NoCall]
    /\ UNCHANGED <<op, args, ret, issued, jobs, companies, users, jobSeq, applications>>

\* the caller takes the result (or the error); the tables stay as the handler left them
Return ==
    /\ op # "idle"
    /\ op' = "idle"
    /\ args' = NoArgs
    /\ ret' = NoResult
    /\ issued' = <<>>
    /\ UNCHANGED <<jobs, companies, users, rest>>

Next ==
    \/ CallSqlForPartialUpdate
    \/ JobFindAllNoData
    \/ JobFindAll
    \/ CompanyFindAllNoData
    \/ CompanyFindAll
    \/ Return

Spec == Init /\ [][Next]_vars

\* the update facades, with the helper they call
NextUpdate ==
    \/ CallSqlForPartialUpdateShort
    \/ JobUpdate
    \/ CompanyUpdate
    \/ UserUpdate
    \/ Return

SpecUpdate == Init /\ [][NextUpdate]_vars

\* Job.create with the searches that read what it stored
NextJobs ==
    \/ JobCreate
    \/ JobFindAllNoData
    \/ JobFindAllSampled
    \/ Return

SpecJobs == Init /\ [][NextJobs]_vars

\* the searches on tables that the removals shrink
NextRemove ==
    \/ JobRemove
    \/ CompanyRemove
    \/ JobFindAllNoData
    \/ JobFindAllSampled
    \/ CompanyFindAllNoData
    \/ CompanyFindAllSampled
    \/ Return

SpecRemove == Init /\ [][NextRemove]_vars

\* concurrent calls of User.applyForJob, interleaved at their awaits
NextApply ==
    \/ \E c \in Callers : ApplyForJob(c)
    \/ \E c \in Callers : ApplyCheckForDupe(c)
    \/ \E c \in Callers : ApplyGetUser(c)
    \/ \E c \in Callers : ApplyGetJob(c)
    \/ \E c \in Callers : ApplyInsert(c)
    \/ \E c \in Callers : ApplyReturn(c)

SpecApply == Init /\ [][NextApply]_vars

\* the calls that store a password
NextUsers ==
    \/ UserRegister
    \/ UserUpdatePassword
    \/ Return

SpecUsers == Init /\ [][NextUsers]_vars

-----------------------------------------------------------------------------
(* What the claims read from a state.                                      *)

RECURSIVE Split(_, _)
\* the pieces of a text between the occurrences of the lexeme sep
Split(text, sep) ==
    LET ps == {p \in 1..Len(text) : text[p] = sep}
    IN  IF ps = {} THEN <<text>>
        ELSE LET p == CHOOSE q \in ps : \A r \in ps : q <= r
             IN  <<SubSeq(text, 1, p - 1)>> \o Split(SubSeq(text, p + 1, Len(text)), sep)

\* a call of sqlForPartialUpdate that returned
Composed == op = "sqlForPartialUpdate" /\ ret.threw = "none"

\* the assignment fragments of the returned setCols
SetColsFragments == Split(ret.text, ", ")

CountUp(n) == [i \in 1..n |-> i]

-----------------------------------------------------------------------------
(* C1: for every non-empty update record and every field-name map,         *)
(* sqlForPartialUpdate returns as many assignment fragments in setCols as  *)
(* the record has keys and as many values, fragment i carries placeholder  *)
(* $i and values[i] is the value the record holds for its i-th key.        *)

C1_OrderFidelity ==
    (op = "sqlForPartialUpdate" /\ Len(args.data) > 0) =>
        /\ ret.threw = "none"
        /\ Len(SetColsFragments) = Len(args.data)
        /\ Len(ret.values) = Len(args.data)
        /\ \A i \in 1..Len(args.data) :
              /\ Placeholders(SetColsFragments[i]) = <<i>>
              /\ ret.values[i] = Get(args.data, Keys(args.data)[i])

C1_Witness ==
    /\ Composed
    /\ Len(args.data) = 2
    /\ args.data[1].v # args.data[2].v
    /\ Placeholders(ret.text) = <<1, 2>>
    /\ ret.values = <<args.data[1].v, args.data[2].v>>

-----------------------------------------------------------------------------
(* C2: sqlForPartialUpdate called with a record of zero keys fails with    *)
(* BadRequestError for every field-name map, before any fragment or value  *)
(* is produced; so Job.update, Company.update and User.update with empty   *)
(* data fail with BadRequestError and issue no UPDATE statement.           *)

UpdateFacades == {"Job.update", "Company.update", "User.update"}

C2_EmptyRecordRefused ==
    /\ (op = "sqlForPartialUpdate" /\ Len(args.data) = 0) =>
          /\ ret.threw = "BadRequestError"
          /\ ret.text = <<>>
          /\ ret.values = <<>>
    /\ (op \in UpdateFacades /\ Len(args.data) = 0) =>
          /\ ret.threw = "BadRequestError"
          /\ ret.rows = <<>>
          /\ issued = <<>>

C2_Witness ==
    /\ op = "Job.update"
    /\ Len(args.data) = 0
    /\ \E row \in jobs : row["id"] = args.key
    /\ ret.threw = "BadRequestError"
    /\ issued = <<>>

-----------------------------------------------------------------------------
(* C3: for every key of the update record, the column identifier of its    *)
(* fragment is the mapped column name when the field-name map has an entry *)
(* for the key, and otherwise the key itself, in double quotes and         *)
(* otherwise unchanged.                                                    *)

C3_ColumnIdentifier ==
    Composed =>
        \A i \in 1..Len(args.data) :
            LET key == args.data[i].k
                column == IF key \in DOMAIN args.map THEN args.map[key] ELSE key
            IN  SubSeq(SetColsFragments[i], 1, 4) = <<"\"", column, "\"", "=">>

C3_Witness ==
    /\ Composed
    /\ Len(args.data) = 2
    /\ args.data[1].k \notin DOMAIN args.map
    /\ args.data[2].k \in DOMAIN args.map
    /\ SetColsFragments[1][2] = args.data[1].k
    /\ SetColsFragments[2][2] = args.map[args.data[2].k]

-----------------------------------------------------------------------------
(* C4: sqlForPartialUpdate passes every value through to the value array   *)
(* unchanged: a null stays null at its position, neither dropped nor       *)
(* converted, and a value of any scalar type comes out equal to the input. *)

C4_ValuesPassThrough ==
    (op = "sqlForPartialUpdate" /\ Len(args.data) > 0) =>
        /\ DOMAIN ret.values = DOMAIN args.data
        /\ \A i \in DOMAIN args.data :
              /\ ret.values[i].t = args.data[i].v.t
              /\ ret.values[i] = args.data[i].v
              /\ args.data[i].v = Null => ret.values[i] = Null

C4_Witness ==
    /\ Composed
    /\ Len(args.data) = 2
    /\ args.data[1].v = JsInt(32)
    /\ args.data[2].v = Null
    /\ ret.values = <<JsInt(32), Null>>

-----------------------------------------------------------------------------
(* The filtered calls of Job.findAll and Company.findAll, and the          *)
(* statement each handed to db.query.                                      *)

JobFiltered == op = "Job.findAll" /\ ~args.nodata
CompanyFiltered == op = "Company.findAll" /\ ~args.nodata
Query == issued[1]

\* the comparisons of the issued statement that are on this column with this operator
Emitted(column, cmp) ==
    { i \in 1..Len(Conjuncts(Query.text)) :
        Conjuncts(Query.text)[i].col = column /\ Conjuncts(Query.text)[i].cmp = cmp }

\* the value bound to the placeholder of the i-th comparison
BoundOf(i) == Query.values[Conjuncts(Query.text)[i].idx]

Wildcarded(raw) == Str(<<"%">> \o raw.s \o <<"%">>)

-----------------------------------------------------------------------------
(* C5: in every clause built by sqlForPartialUpdate, Job.findAll and       *)
(* Company.findAll the placeholder indices, in emission order, are exactly *)
(* 1, 2, ..., n with n the length of the bound value array, and the        *)
(* fragment carrying $k is the one whose value sits at position k, for     *)
(* every combination of triggered and skipped predicates.                  *)

\* the value the code binds for a comparison of the issued statement
JobBinding(c, data) ==
    CASE c.col = "title" -> Wildcarded(Get(data, "title"))
      [] c.col = "salary" -> ToNumber(Get(data, "minSalary"))
      [] OTHER -> JsInt(0)

CompanyBinding(c, data) ==
    CASE c.col = "name" -> Wildcarded(Get(data, "name"))
      [] c.cmp = " >= " -> ToNumber(Get(data, "minEmployees"))
      [] OTHER -> ToNumber(Get(data, "maxEmployees"))

C5_PlaceholdersCountUp ==
    /\ Composed =>
          /\ Placeholders(ret.text) = CountUp(Len(ret.values))
          /\ \A i \in 1..Len(SetColsFragments) :
                ret.values[Placeholders(SetColsFragments[i])[1]] = args.data[i].v
    /\ JobFiltered =>
          /\ Placeholders(Query.text) = CountUp(Len(Query.values))
          /\ \A i \in 1..Len(Conjuncts(Query.text)) :
                BoundOf(i) = JobBinding(Conjuncts(Query.text)[i], args.data)
    /\ CompanyFiltered =>
          /\ Placeholders(Query.text) = CountUp(Len(Query.values))
          /\ \A i \in 1..Len(Conjuncts(Query.text)) :
                BoundOf(i) = CompanyBinding(Conjuncts(Query.text)[i], args.data)

\* the first predicate skipped, the other two triggered
C5_Witness ==
    /\ JobFiltered
    /\ Has(args.data, "title") /\ ~JobTitleTriggered(args.data)
    /\ Placeholders(Query.text) = <<1, 2>>
    /\ Query.values = <<JsInt(1), JsInt(0)>>
    /\ Conjuncts(Query.text)[1].col = "salary"
    /\ Conjuncts(Query.text)[2].col = "equity"

-----------------------------------------------------------------------------
(* C6: no supplied value appears in clause text.  Two update records with  *)
(* the same keys in the same order give the same setCols whatever their    *)
(* values; two filter records that trigger the same predicates give the    *)
(* same statement text whatever the raw values.  (Each call is compared    *)
(* with the call on one fixed record of the same keys, or of the same      *)
(* triggered predicates; equality of texts is transitive.)                 *)

\* the record with the same keys in the same order and every value null
Blanked(data) == [i \in 1..Len(data) |-> [k |-> data[i].k, v |-> Null]]

\* one fixed filter record per set of triggered predicates
JobRepresentative(data) ==
    (IF JobTitleTriggered(data) THEN <<[k |-> "title", v |-> Str(<<"x">>)]>> ELSE <<>>)
    \o (IF JobMinSalaryTriggered(data) THEN <<[k |-> "minSalary", v |-> Str(<<"7">>)]>> ELSE <<>>)
    \o (IF JobHasEquityTriggered(data)
        THEN <<[k |-> "hasEquity", v |-> Str(<<"t", "r", "u", "e">>)]>> ELSE <<>>)

CompanyRepresentative(data) ==
    (IF CompanyNameTriggered(data) THEN <<[k |-> "name", v |-> Str(<<"x">>)]>> ELSE <<>>)
    \o (IF CompanyMinTriggered(data) THEN <<[k |-> "minEmployees", v |-> Str(<<"7">>)]>> ELSE <<>>)
    \o (IF CompanyMaxTriggered(data) THEN <<[k |-> "maxEmployees", v |-> Str(<<"7">>)]>> ELSE <<>>)

C6_TextIndependentOfValues ==
    /\ Composed => ret.text = sqlForPartialUpdate(Blanked(args.data), args.map).text
    /\ JobFiltered => Query.text = JobFilterStatement(JobRepresentative(args.data)).text
    /\ CompanyFiltered =>
          Query.text = CompanyFilterStatement(CompanyRepresentative(args.data)).text

C6_Witness ==
    /\ JobFiltered
    /\ Get(args.data, "title") = Str(<<"j", "o", "b", "1">>)
    /\ Get(args.data, "minSalary") = Str(<<"1", "0">>)
    /\ args.data # JobRepresentative(args.data)
    /\ Query.values = <<Str(<<"%", "j", "o", "b", "1", "%">>), JsInt(10)>>
    /\ Query.text = JobFilterStatement(JobRepresentative(args.data)).text

-----------------------------------------------------------------------------
(* C7: the WHERE clause of Job.findAll lists its triggered predicates in   *)
(* the fixed order title, minSalary, hasEquity (Company.findAll: name,     *)
(* minEmployees, maxEmployees) whatever the order of the keys of the       *)
(* filter record, joined only by AND; for {title: "job1", minSalary: "1"}  *)
(* the predicates are title ILIKE $1 AND salary >= $2 with values          *)
(* ["%job1%", 1].                                                          *)

Predicate(column, cmp, k) == <<column, cmp, "$", ToString(k), " ">>

\* the predicates of the listed kinds that are triggered, numbered in that order
Numbered(kinds) ==
    LET on == SelectSeq(kinds, LAMBDA kind : kind.on)
    IN  [i \in 1..Len(on) |-> Predicate(on[i].col, on[i].cmp, i)]

JobPredicates(data) ==
    Numbered(<< [on |-> JobTitleTriggered(data), col |-> "title", cmp |-> " ILIKE "],
                [on |-> JobMinSalaryTriggered(data), col |-> "salary", cmp |-> " >= "],
                [on |-> JobHasEquityTriggered(data), col |-> "equity", cmp |-> " >= "] >>)

CompanyPredicates(data) ==
    Numbered(<< [on |-> CompanyNameTriggered(data), col |-> "name", cmp |-> " ILIKE "],
                [on |-> CompanyMinTriggered(data), col |-> "num_employees", cmp |-> " >= "],
                [on |-> CompanyMaxTriggered(data), col |-> "num_employees", cmp |-> " <= "] >>)

\* the clause between the base query and ORDER BY
WhereClause(base) == SubSeq(Query.text, Len(base) + 1, Len(Query.text) - 1)

ExampleFilter ==
    { <<[k |-> "title", v |-> Str(<<"j", "o", "b", "1">>)], [k |-> "minSalary", v |-> Str(<<"1">>)]>>,
      <<[k |-> "minSalary", v |-> Str(<<"1">>)], [k |-> "title", v |-> Str(<<"j", "o", "b", "1">>)]>> }

C7_FixedPredicateOrder ==
    /\ (JobFiltered /\ JobPredicates(args.data) # <<>>) =>
          WhereClause(JobBaseQuery) = <<"WHERE ">> \o Join(JobPredicates(args.data), <<"AND ">>)
    /\ (CompanyFiltered /\ CompanyPredicates(args.data) # <<>>) =>
          WhereClause(CompanyBaseQuery)
              = <<"WHERE ">> \o Join(CompanyPredicates(args.data), <<"AND ">>)
    /\ (JobFiltered /\ args.data \in ExampleFilter) =>
          /\ WhereClause(JobBaseQuery)
                = <<"WHERE ", "title", " ILIKE ", "$", "1", " ", "AND ",
                    "salary", " >= ", "$", "2", " ">>
          /\ Query.values = <<Str(<<"%", "j", "o", "b", "1", "%">>), JsInt(1)>>

\* the keys in the order hasEquity, minSalary, title, all three triggered
C7_Witness ==
    /\ JobFiltered
    /\ Keys(args.data) = <<"hasEquity", "minSalary", "title">>
    /\ Len(Query.values) = 3
    /\ [i \in 1..3 |-> Conjuncts(Query.text)[i].col] = <<"title", "salary", "equity">>

-----------------------------------------------------------------------------
(* C8: the numeric-threshold predicates (minSalary; minEmployees and       *)
(* maxEmployees) are emitted exactly when the raw value parses as an       *)
(* integer, and then bind that integer as a number; for every other raw    *)
(* value (absent, empty, non-numeric text, malformed or non-integer        *)
(* numerals) the predicate is omitted.                                     *)

\* the raw value is text that holds a numeral (at least one digit) whose value
\* is an integer; the value is the one the code computes
ParsesAsInteger(raw) ==
    /\ raw.t = "string"
    /\ \E i \in 1..Len(raw.s) : raw.s[i] \in Digits
    /\ IsInteger(StringToNumber(raw.s))

ThresholdAsClaimed(raw, emitted) ==
    /\ (emitted # {}) <=> ParsesAsInteger(raw)
    /\ \A i \in emitted : BoundOf(i) = StringToNumber(raw.s)

C8_ThresholdIffInteger ==
    /\ JobFiltered =>
          ThresholdAsClaimed(Get(args.data, "minSalary"), Emitted("salary", " >= "))
    /\ CompanyFiltered =>
          /\ ThresholdAsClaimed(Get(args.data, "minEmployees"),
                                Emitted("num_employees", " >= "))
          /\ ThresholdAsClaimed(Get(args.data, "maxEmployees"),
                                Emitted("num_employees", " <= "))

-----------------------------------------------------------------------------
(* C9: the substring-match predicate (title; name for companies) is        *)
(* emitted exactly when the filter record holds a non-empty value for the  *)
(* key, and the bound value is the raw value with one % prepended and one  *)
(* appended; an absent or empty value emits no predicate and binds no      *)
(* value.                                                                  *)

SubstringAsClaimed(data, key, column) ==
    IF Has(data, key) /\ Get(data, key).s # <<>>
    THEN /\ Cardinality(Emitted(column, " ILIKE ")) = 1
         /\ \A i \in Emitted(column, " ILIKE ") :
               /\ Len(BoundOf(i).s) = Len(Get(data, key).s) + 2
               /\ BoundOf(i) = Str(<<"%">> \o Get(data, key).s \o <<"%">>)
    ELSE /\ Emitted(column, " ILIKE ") = {}
         /\ \A k \in 1..Len(Query.values) : Query.values[k].t # "string"

C9_SubstringMatch ==
    /\ JobFiltered => SubstringAsClaimed(args.data, "title", "title")
    /\ CompanyFiltered => SubstringAsClaimed(args.data, "name", "name")

C9_Witness ==
    /\ JobFiltered
    /\ Get(args.data, "title") = Str(<<"J", "O", "B">>)
    /\ Emitted("title", " ILIKE ") = {1}
    /\ Query.values[1] = Str(<<"%", "J", "O", "B", "%">>)

-----------------------------------------------------------------------------
(* C10: in Job.findAll the hasEquity predicate is emitted exactly when the *)
(* raw value is the string "true"; when emitted it is equity >= $k with    *)
(* bound value 0; "false", "True", "1", the boolean true and an absent     *)
(* value emit no predicate.                                                *)

C10_HasEquityOnlyTrue ==
    JobFiltered =>
        /\ (Emitted("equity", " >= ") # {})
              <=> (Get(args.data, "hasEquity") = Str(<<"t", "r", "u", "e">>))
        /\ Cardinality(Emitted("equity", " >= ")) <= 1
        /\ \A i \in 1..Len(Conjuncts(Query.text)) :
              Conjuncts(Query.text)[i].col = "equity" =>
                  /\ Conjuncts(Query.text)[i].cmp = " >= "
                  /\ BoundOf(i) = JsInt(0)

C10_Witness ==
    /\ JobFiltered
    /\ args.data = <<[k |-> "hasEquity", v |-> Str(<<"t", "r", "u", "e">>)]>>
    /\ WhereClause(JobBaseQuery) = <<"WHERE ", "equity", " >= ", "$", "1", " ">>
    /\ Query.values = <<JsInt(0)>>

-----------------------------------------------------------------------------
(* C11: when the hasEquity filter is triggered, Job.findAll returns only   *)
(* jobs with a non-zero amount of equity: whatever the jobs table holds,   *)
(* no returned job has equity equal to zero.                               *)

C11_NoZeroEquityReturned ==
    (JobFiltered /\ JobHasEquityTriggered(args.data) /\ ret.threw = "none") =>
        \A i \in 1..Len(ret.rows) : ret.rows[i].equity # Num(0)

-----------------------------------------------------------------------------
(* C12: Job.findAll and Company.findAll called without a filter record     *)
(* issue the unfiltered statement, with no WHERE clause and no bound       *)
(* value, and return every row of the table ordered by title (by name for  *)
(* companies); for the empty table they return the empty list, no error.   *)

\* the statement has no WHERE clause, no placeholder and no bound value
Unfiltered(stmt) ==
    /\ \A p \in 1..Len(stmt.text) : stmt.text[p] # "WHERE "
    /\ DollarPos(stmt.text) = {}
    /\ stmt.values = <<>>

\* the answer lists exactly these records, each once, in the order of the field
ListsInOrder(records, field) ==
    /\ ret.threw = "none"
    /\ Len(ret.rows) = Cardinality(records)
    /\ { ret.rows[i] : i \in 1..Len(ret.rows) } = records
    /\ \A i, j \in 1..Len(ret.rows) :
          i < j => CellLeq(ret.rows[i][field], ret.rows[j][field])

AllJobs == { JobRecord(row) : row \in jobs }
AllCompanies == { CompanyRecord(row) : row \in companies }

C12_NoFilterReturnsEveryRow ==
    /\ (op = "Job.findAll" /\ args.nodata) =>
          /\ Len(issued) = 1
          /\ Unfiltered(issued[1])
          /\ ListsInOrder(AllJobs, "title")
    /\ (op = "Company.findAll" /\ args.nodata) =>
          /\ Len(issued) = 1
          /\ Unfiltered(issued[1])
          /\ ListsInOrder(AllCompanies, "name")

\* Job.findAll() has answered the empty list on the empty jobs table
C12_Witness ==
    /\ op = "Job.findAll"
    /\ args.nodata
    /\ jobs = {}
    /\ ret.threw = "none"
    /\ ret.rows = <<>>

-----------------------------------------------------------------------------
(* C13: whatever the jobs table holds, Job.findAll called with a filter    *)
(* record in which no predicate triggers raises no error and returns       *)
(* exactly the rows that Job.findAll() without a filter returns.           *)

NoJobPredicateTriggered(data) ==
    /\ ~JobTitleTriggered(data)
    /\ ~JobMinSalaryTriggered(data)
    /\ ~JobHasEquityTriggered(data)

C13_NoTriggerReturnsAllJobs ==
    (JobFiltered /\ NoJobPredicateTriggered(args.data)) =>
        ListsInOrder(AllJobs, "title")

-----------------------------------------------------------------------------
(* C14: Job.findAll and Company.findAll called with a filter record throw  *)
(* NotFoundError exactly when no row satisfies all triggered predicates,   *)
(* and otherwise return precisely the rows that satisfy every triggered    *)
(* predicate (the title or name contains the text, whatever the case; the  *)
(* thresholds are inclusive), ordered by title (by name).                  *)

\* the text holds the part somewhere, letters compared without their case
Contains(text, part) ==
    \E k \in 0..(Len(text) - Len(part)) :
        \A i \in 1..Len(part) : Lower(text[k + i]) = Lower(part[i])

ContainsRaw(cell, raw) == cell.t = "string" /\ raw.t = "string" /\ Contains(cell.s, raw.s)
AtLeast(cell, bound) == cell.t = "number" /\ bound.t = "number" /\ cell.n >= bound.n
AtMost(cell, bound) == cell.t = "number" /\ bound.t = "number" /\ cell.n <= bound.n

JobSatisfies(row, data) ==
    /\ JobTitleTriggered(data) => ContainsRaw(row["title"], Get(data, "title"))
    /\ JobMinSalaryTriggered(data) => AtLeast(row["salary"], ToNumber(Get(data, "minSalary")))
    /\ JobHasEquityTriggered(data) => AtLeast(row["equity"], JsInt(0))

CompanySatisfies(row, data) ==
    /\ CompanyNameTriggered(data) => ContainsRaw(row["name"], Get(data, "name"))
    /\ CompanyMinTriggered(data) =>
          AtLeast(row["num_employees"], ToNumber(Get(data, "minEmployees")))
    /\ CompanyMaxTriggered(data) =>
          AtMost(row["num_employees"], ToNumber(Get(data, "maxEmployees")))

\* NotFoundError for no matching record, the matching records in order otherwise
AnswersWith(matching, field) ==
    IF matching = {} THEN ret.threw = "NotFoundError" ELSE ListsInOrder(matching, field)

C14_NotFoundIffNoRowMatches ==
    /\ JobFiltered =>
          AnswersWith({ JobRecord(row) : row \in { r \in jobs : JobSatisfies(r, args.data) } },
                      "title")
    /\ CompanyFiltered =>
          AnswersWith({ CompanyRecord(row) :
                          row \in { r \in companies : CompanySatisfies(r, args.data) } },
                      "name")

-----------------------------------------------------------------------------
(* C16: Job.update (likewise Company.update and User.update) changes only  *)
(* the columns named by the keys of data, on the row with the given key:   *)
(* every other column of that row, the key of the row and every other row  *)
(* of the table are unchanged, and the returned record is the stored row   *)
(* after the update; when no row has the key it throws NotFoundError and   *)
(* the table is unchanged.                                                 *)

\* the columns the keys of data name, through the field-name map
NamedColumns(data, jsToSql) ==
    { IF data[i].k \in DOMAIN jsToSql THEN jsToSql[data[i].k] ELSE data[i].k :
        i \in 1..Len(data) }

\* the step from table to after is a partial update of the row with this key,
\* answered by answer
PartialUpdate(table, after, keyColumn, key, named, answer, record(_)) ==
    LET targets == { row \in table : row[keyColumn] = key }
    IN  CASE answer.threw = "none" ->
                \E row \in targets, new \in after :
                    /\ after \ {new} = table \ {row}
                    /\ \A c \in DOMAIN row : c \notin named => new[c] = row[c]
                    /\ new[keyColumn] = row[keyColumn]
                    /\ answer.rows = <<record(new)>>
          [] answer.threw = "NotFoundError" -> targets = {} /\ after = table
          [] OTHER -> after = table

C16_UpdateFrame ==
    [][ /\ (op = "idle" /\ op' = "Job.update") =>
              PartialUpdate(jobs, jobs', "id", args'.key,
                            NamedColumns(args'.data, JobUpdateMap), ret', JobRecord)
        /\ (op = "idle" /\ op' = "Company.update") =>
              PartialUpdate(companies, companies', "handle", args'.key,
                            NamedColumns(args'.data, CompanyUpdateMap), ret', CompanyRecord)
        /\ (op = "idle" /\ op' = "User.update") =>
              PartialUpdate(users, users', "username", args'.key,
                            NamedColumns(args'.data, UserUpdateMap), ret', UserRecord)
      ]_vars

-----------------------------------------------------------------------------
(* C17: the id and the company handle of a job cannot be changed by an     *)
(* update: for every data record Job.update accepts, every job row has the *)
(* same id and company handle after the call as before it.                 *)

Identities(table) == { <<row["id"], row["company_handle"]>> : row \in table }

C17_IdAndCompanyKept ==
    [][ (op = "idle" /\ op' = "Job.update") => Identities(jobs') = Identities(jobs) ]_vars

-----------------------------------------------------------------------------
(* C19: each update facade places the row key at placeholder index         *)
(* values.length + 1 and appends it as the last bound value: for a data    *)
(* record of n > 0 fields the statement uses exactly the placeholders      *)
(* $1..$(n+1), binds n+1 values, the first n being the values of           *)
(* sqlForPartialUpdate in order, and the row key is bound to $(n+1).       *)

\* the values sqlForPartialUpdate returned to the facade
ComposerValues ==
    IF op = "User.update" THEN Values(HashedPassword(args.data)) ELSE Values(args.data)

C19_KeyAfterComposedValues ==
    (op \in UpdateFacades /\ Len(args.data) > 0) =>
        LET n == Len(args.data)
        IN  /\ Len(issued) = 1
            /\ Placeholders(Query.text) = CountUp(n + 1)
            /\ Len(Query.values) = n + 1
            /\ SubSeq(Query.values, 1, n) = ComposerValues
            /\ WhereIndex(Query.text) = n + 1
            /\ Query.values[n + 1] = args.key

\* Job.update has bound two values and then the id, to $3
C19_Witness ==
    /\ op = "Job.update"
    /\ Len(args.data) = 2
    /\ Placeholders(Query.text) = <<1, 2, 3>>
    /\ Query.values[3] = args.key
    /\ ret.threw = "none"

-----------------------------------------------------------------------------
(* C18: Job.create throws BadRequestError and leaves the jobs table        *)
(* unchanged when the company handle does not exist or when a job with the *)
(* same title, salary, equity and company handle is already in the table,  *)
(* so after any sequence of Job.create calls no two job rows agree on all  *)
(* four of those fields and every job row references an existing company.  *)

\* the four fields of a job row
FourFields(row) == <<row["title"], row["salary"], row["equity"], row["company_handle"]>>

\* the four fields the caller of Job.create gave
GivenFields(data) ==
    <<Stored(Get(data, "title")), Stored(Get(data, "salary")),
      Stored(Get(data, "equity")), Stored(Get(data, "companyHandle"))>>

NoTwoJobsAlike == \A r1, r2 \in jobs : r1 # r2 => FourFields(r1) # FourFields(r2)

EveryJobHasItsCompany ==
    \A row \in jobs : \E c \in companies : c["handle"] = row["company_handle"]

C18_NoDuplicateJobs ==
    /\ [][ (op = "idle" /\ op' = "Job.create") =>
              ( ( \/ \A c \in companies : c["handle"] # Get(args'.data, "companyHandle")
                  \/ \E row \in jobs : FourFields(row) = GivenFields(args'.data) )
                => (ret'.threw = "BadRequestError" /\ jobs' = jobs) )
          ]_vars
    /\ [](NoTwoJobsAlike /\ EveryJobHasItsCompany)

-----------------------------------------------------------------------------
(* C20: the duplicate check and the insert of User.applyForJob behave      *)
(* atomically: under every interleaving of concurrent calls for the same   *)
(* user and job at most one call reaches the INSERT and returns the job    *)
(* id, every other call fails with BadRequestError, and the applications   *)
(* table never holds two rows for the same user and job.                   *)

\* two calls for the same existing user and the same existing job
SameApplication(c, d) ==
    /\ c # d
    /\ calls[c].pc # "idle"
    /\ calls[d].pc # "idle"
    /\ calls[c].username = calls[d].username
    /\ calls[c].jobId = calls[d].jobId
    /\ UserGet(users, calls[c].username).threw = "none"
    /\ JobGet(jobs, calls[c].jobId).threw = "none"

\* the call has passed the checks: it is at the INSERT or has returned the job id
ReachedInsert(c) ==
    \/ calls[c].pc = "insert"
    \/ calls[c].pc = "done" /\ calls[c].ret.threw \in {"none", "DbError"}

C20_CheckAndInsertAtomic ==
    /\ \A c, d \in Callers :
          SameApplication(c, d) =>
              /\ ~(ReachedInsert(c) /\ ReachedInsert(d))
              /\ (calls[c].pc = "done" /\ calls[c].ret.threw = "none" /\ calls[d].pc = "done")
                    => calls[d].ret.threw = "BadRequestError"
    /\ \A i, j \in 1..Len(applications) : i # j => applications[i] # applications[j]

-----------------------------------------------------------------------------
(* C21: User.applyForJob performs its steps in the order: reject a         *)
(* duplicate application (BadRequestError), then verify that the user      *)
(* exists, then that the job exists (NotFoundError for either), then       *)
(* insert; it inserts exactly one application row (username, jobId) and    *)
(* returns jobId only when all three checks pass, and on every error       *)
(* outcome the applications table is unchanged.                            *)

\* what the three checks of a call find in the tables as they are
Applied(call) == Len(ApplicationsOf(applications, call.username, call.jobId)) > 0
UserKnown(call) == UsersNamed(users, call.username) # {}
JobKnown(call) == JobsWithId(jobs, call.jobId) # {}

\* the step of one call from before to after keeps the order of the checks
StepInOrder(before, after) ==
    /\ after.pc = "checkForDupe" => before.pc = "idle"
    /\ after.pc = "User.get" => before.pc = "checkForDupe" /\ ~Applied(before)
    /\ after.pc = "Job.get" => before.pc = "User.get" /\ UserKnown(before)
    /\ after.pc = "insert" => before.pc = "Job.get" /\ JobKnown(before)
    /\ (after.pc = "done" /\ after.ret.threw = "BadRequestError") =>
          before.pc = "checkForDupe" /\ Applied(before)
    /\ (after.pc = "done" /\ after.ret.threw = "NotFoundError") =>
          \/ before.pc = "User.get" /\ ~UserKnown(before)
          \/ before.pc = "Job.get" /\ ~JobKnown(before)
    /\ (after.pc = "done" /\ after.ret.threw = "none") =>
          /\ before.pc = "insert"
          /\ after.ret.rows = <<before.jobId>>
          /\ applications' =
                Append(applications, [username |-> before.username, job_id |-> before.jobId])
    /\ (after.pc = "done" /\ after.ret.threw # "none") => applications' = applications
    /\ after.pc # "done" => applications' = applications

C21_ChecksThenInsert ==
    [][ \A c \in Callers : calls'[c] # calls[c] => StepInOrder(calls[c], calls'[c]) ]_vars

\* a call has inserted the one application of the table and returned the job id
C21_Witness ==
    \E c \in Callers :
        /\ calls[c].pc = "done"
        /\ calls[c].ret.threw = "none"
        /\ calls[c].ret.rows = <<calls[c].jobId>>
        /\ applications = <<[username |-> calls[c].username, job_id |-> calls[c].jobId]>>

-----------------------------------------------------------------------------
(* C22: after any sequence of User.register and User.update calls the      *)
(* password stored for a user is never the plaintext the caller supplied:  *)
(* every password value bound into an INSERT or UPDATE statement on users  *)
(* is the bcrypt hash of the supplied password, for every supplied         *)
(* password, the empty string included.                                    *)

\* the value the issued UPDATE binds to the password column
BoundPassword ==
    LET as == Assignments(Query.text)
    IN  Query.values[as[CHOOSE i \in 1..Len(as) : as[i].col = "password"].idx]

C22_PasswordAlwaysHashed ==
    /\ (op = "User.register" /\ Len(issued) = 1) =>
          Query.values[2] = BcryptHash(Get(args.data, "password"))
    /\ (op = "User.update" /\ Len(issued) = 1 /\ Has(args.data, "password")) =>
          BoundPassword = BcryptHash(Get(args.data, "password"))
    /\ \A row \in users : row["password"].s # <<>> /\ Head(row["password"].s) = "$2b$"

====
